---- MODULE Spec2Model ----
(***************************************************************************)
(* Model of SMfit.py: the pseudo-Voigt peak model (pV), the multi-peak     *)
(* model (fitting_function), the interactive peak-editing session driven   *)
(* by the onclick handler, and the derivation of the parameter vector and  *)
(* of its bounds that follows the session.                                 *)
(*                                                                         *)
(* Numbers.  The program computes in floating point; the model computes in *)
(* fixed point on integers.  Heights, curve values and the Gauss/Lorentz   *)
(* ratio are counted in hundredths (Cent), peak-normalised shape values in *)
(* thousandths (Mille).  Lengths on the x axis are counted in a unit such  *)
(* that x_size = set_size(x) is a multiple of 2000, so that x_size/1000,   *)
(* x_size*0.999, x_size/10 and half of every reachable width are whole     *)
(* numbers and the clamp and the bounds are computed without rounding.     *)
(*                                                                         *)
(* The model is of the library versions the script was written for:        *)
(* np.float is the built-in float and ax.lines supports remove().          *)
(***************************************************************************)
EXTENDS Integers, Sequences, FiniteSets, TLC

\* ------------------------------------------------------------------------
\* Fixed-point units
\* ------------------------------------------------------------------------
Cent == 100
Mille == 1000

\* sqrt(pi * ln 2) = 1.4757, in thousandths (np.sqrt(np.pi*np.log(2)))
SqrtPiLn2 == 1476

\* ------------------------------------------------------------------------
\* Program constants (SMfit.py lines 29-31, 100)
\* ------------------------------------------------------------------------
scrolling_speed == 1
initial_width == 5
\* 0.5, in hundredths
initial_GaussToLoretnz_ratio == 50
rapport == 70

\* default arguments of pV: h=30, x0=0, w=10
pV_default_h == 3000
pV_default_x0 == 0
pV_default_w == 10

\* ------------------------------------------------------------------------
\* Bounds of the model
\* ------------------------------------------------------------------------
\* at most this many peaks are present at once
MaxPeaks == 2
\* scroll_count never exceeds this many upward steps of x_size/10
MaxScrollUp == 0
\* with two or more peaks present, scroll_count stays within this many
\* downward steps of x_size/10; with a single peak present it runs all the
\* way down to the clamp
MaxScrollDown == 1
\* the multi-peak model is evaluated on vectors of at most this many peaks
MaxFnPeaks == 2

\* ------------------------------------------------------------------------
\* Arithmetic helpers
\* ------------------------------------------------------------------------
Abs(n) == IF n < 0 THEN 0 - n ELSE n

sign(n) == IF n > 0 THEN 1 ELSE IF n < 0 THEN 0 - 1 ELSE 0

RECURSIVE Pow2(_)
Pow2(k) == IF k <= 0 THEN 1 ELSE 2 * Pow2(k - 1)

RECURSIVE SeqMax(_)
SeqMax(s) == IF Len(s) = 1 THEN s[1]
             ELSE LET m == SeqMax(Tail(s)) IN IF s[1] > m THEN s[1] ELSE m

RECURSIVE SeqMin(_)
SeqMin(s) == IF Len(s) = 1 THEN s[1]
             ELSE LET m == SeqMin(Tail(s)) IN IF s[1] < m THEN s[1] ELSE m

\* list.pop(i) with 1-based i
Pop(s, i) == [k \in 1..(Len(s) - 1) |-> IF k < i THEN s[k] ELSE s[k + 1]]

\* ------------------------------------------------------------------------
\* pV: the pseudo-Voigt profile (lines 34-59)
\*
\* In the code, Gauss = (2/w)*sqrt(ln2/pi)*g and Lorentz = (1/pi)*(w/2)/
\* ((x-x0)^2+(w/2)^2) = (2/(pi*w))*l, where g = exp(-4 ln2 (x-x0)^2/w^2) and
\* l = 1/(1+(2(x-x0)/w)^2) are the shapes normalised to 1 at x = x0, and
\* intensity = h*pi*(w/2)/(1+factor*(sqrt(pi ln2)-1)).  The returned value
\* intensity*(factor*Gauss + (1-factor)*Lorentz) is therefore
\*    h * (factor*sqrt(pi ln2)*g + (1-factor)*l)
\*      / (factor*sqrt(pi ln2) + (1-factor)),
\* which is what the operators below compute in fixed point.  Both shapes
\* depend on w through w^2 (Gauss) or through intensity*Lorentz ~ (w/2)^2,
\* so a negative w gives the curve of |w|.  w = 0 divides by zero.
\* ------------------------------------------------------------------------

\* 2|x-x0|/|w| in sixteenths
Ratio16(d, w) == (2 * Abs(d) * 16) \div Abs(w)

\* beyond 32 half-widths both shapes are below one thousandth
FarCut == 512

\* exp(-(4 ln2/w^2) (x-x0)^2) = 2^-(r^2), r = 2(x-x0)/w, in thousandths;
\* 2^-t is interpolated linearly between consecutive integer t
Gauss(d, w) ==
    LET r == Ratio16(d, w)
        e == r * r
        k == e \div 256
        f == e % 256
    IN  IF r > FarCut \/ k >= 10 THEN 0
        ELSE (Mille - (500 * f) \div 256) \div Pow2(k)

\* (w/2)^2 / ((x-x0)^2 + (w/2)^2), in thousandths
Lorentz(d, w) ==
    LET r == Ratio16(d, w)
    IN  IF r > FarCut THEN 0
        ELSE (Mille * 256) \div (256 + r * r)

\* the value of one peak with intensity = h*pi*(w/2), the division by
\* 1 + factor*(sqrt(pi ln2) - 1) left out
Profile_unnormalised(d, h, w, factor) ==
    LET num == factor * SqrtPiLn2 * Gauss(d, w)
               + (Cent - factor) * Mille * Lorentz(d, w)
        den == Cent * Mille
    IN  (h * (num \div den)) \div Mille

\* the value of one peak at distance d from its centre, in hundredths
Profile(d, h, w, factor) ==
    LET num == factor * SqrtPiLn2 * Gauss(d, w)
               + (Cent - factor) * Mille * Lorentz(d, w)
        den == factor * SqrtPiLn2 + (Cent - factor) * Mille
    IN  (h * (num \div den)) \div Mille

\* An array result: kind "ok" with the values y, or kind "nan" (every
\* element is NaN), or the exception raised instead of a result.
Curve(y) == [kind |-> "ok", y |-> y]
NaNCurve == [kind |-> "nan", y |-> <<>>]
Raised(e) == [kind |-> e, y |-> <<>>]

\* pV(x, h, x0, w, factor).  npf: the scalar arguments are numpy.float64
\* (as those derived from x_size and those curve_fit passes are) and not
\* Python numbers.  With w = 0, 2/w raises ZeroDivisionError on Python
\* numbers; on numpy floats it is inf, the exponent is -inf or nan, and
\* intensity = 0 times inf or nan makes every element NaN.
pV(xs, h, x0, w, factor, npf) ==
    IF w = 0
    THEN IF npf THEN NaNCurve ELSE Raised("ZeroDivisionError")
    ELSE Curve([k \in 1..Len(xs) |-> Profile(xs[k] - x0, h, w, factor)])

\* result = curve: the accumulator is overwritten
OverwriteCurve(a, b) ==
    IF a.kind \notin {"ok", "nan"} THEN a ELSE b

\* result += curve (numpy elementwise addition; NaN is absorbing; an
\* exception propagates)
AddCurves(a, b) ==
    IF a.kind \notin {"ok", "nan"} THEN a
    ELSE IF b.kind \notin {"ok", "nan"} THEN b
    ELSE IF a.kind = "nan" \/ b.kind = "nan" THEN NaNCurve
    ELSE Curve([k \in 1..Len(a.y) |-> a.y[k] + b.y[k]])

\* np.ones_like(x), in hundredths
ones_like(xs) == Curve([k \in 1..Len(xs) |-> Cent])

\* np.zeros_like(x)
zeros_like(xs) == Curve([k \in 1..Len(xs) |-> 0])

\* pV(x, *group): the arguments missing from a group of fewer than four
\* take the defaults of pV's signature (line 34)
pV_star(xs, group, npf) ==
    pV(xs,
       IF Len(group) >= 1 THEN group[1] ELSE pV_default_h,
       IF Len(group) >= 2 THEN group[2] ELSE pV_default_x0,
       IF Len(group) >= 3 THEN group[3] ELSE pV_default_w,
       IF Len(group) >= 4 THEN group[4] ELSE initial_GaussToLoretnz_ratio,
       npf)

\* params[i:i+4] with 0-based i (a slice stops at the end of the list)
Slice4(params, i) ==
    SubSeq(params, i + 1, IF i + 4 <= Len(params) THEN i + 4 ELSE Len(params))

\* the loop of fitting_function from index i on, result being the
\* accumulator (lines 71-72)
RECURSIVE fitting_loop(_, _, _, _, _)
fitting_loop(xs, params, i, result, npf) ==
    IF i >= Len(params) THEN result
    ELSE fitting_loop(xs, params, i + 4,
                      AddCurves(result, pV_star(xs, Slice4(params, i), npf)),
                      npf)

\* fitting_function(x, *params) (lines 62-73)
fitting_function(xs, params, npf) ==
    fitting_loop(xs, params, 0, zeros_like(xs), npf)

\* ------------------------------------------------------------------------
\* The data and the sizes derived from it (lines 82-105)
\* ------------------------------------------------------------------------
\* x and y: the data, sampled at three points of the x axis
x == <<0, 70000, 140000>>
y == <<0, 56000, 700>>

\* set_size(variable, rapport=70) (lines 100-101)
set_size(variable) == (SeqMax(variable) - SeqMin(variable)) \div rapport

x_size == set_size(x)
y_size == 2 * set_size(y)

\* ------------------------------------------------------------------------
\* Extended reals for the bounds arrays (np.inf, -np.inf)
\* ------------------------------------------------------------------------
Fin(v) == [inf |-> 0, v |-> v]
PosInf == [inf |-> 1, v |-> 0]
NegInf == [inf |-> 0 - 1, v |-> 0]
IsFinite(a) == a.inf = 0
Leq(a, b) == \/ a.inf < b.inf
             \/ a.inf = b.inf /\ (a.inf # 0 \/ a.v <= b.v)

\* ------------------------------------------------------------------------
\* State
\* ------------------------------------------------------------------------
VARIABLES
    pic,                \* pic['line'], pic['h'], pic['x0'], pic['w'], pic['fill']
    cum_graph_present,  \* number of cumulative curves drawn
    sum_peak,           \* the cumulative curves drawn
    peaks_present,
    scroll_count,
    artists,            \* the ellipses marking the peaks
    clicked_indice,     \* 0-based index of the last marker clicked, -1 at start
    block,              \* the global 'block' exists
    cid, cid2,          \* the two handlers are connected
    pc,                 \* position of the module-level code
    manualfit_components_params,
    manualfit,
    lower_bounds, upper_bounds,
    call,               \* arguments of an evaluation of the multi-peak model
    ret                 \* its results

sessionVars == <<pic, cum_graph_present, sum_peak, peaks_present, scroll_count,
                 artists, clicked_indice>>
handlerVars == <<block, cid, cid2>>
scriptVars == <<pc, manualfit_components_params, manualfit,
                lower_bounds, upper_bounds>>
fnVars == <<call, ret>>
vars == <<pic, cum_graph_present, sum_peak, peaks_present, scroll_count,
          artists, clicked_indice, block, cid, cid2, pc,
          manualfit_components_params, manualfit, lower_bounds, upper_bounds,
          call, ret>>

NotCalled == [kind |-> "none", y |-> <<>>]
NoCall == [x |-> <<>>, params1 |-> <<>>, params2 |-> <<>>, npf |-> TRUE]
NoRet == [done |-> FALSE, pv |-> NotCalled, r1 |-> NotCalled,
          r2 |-> NotCalled, r12 |-> NotCalled]

\* the state after lines 125-145 and the two mpl_connect calls (275-276)
InitSession ==
    /\ pic = [line |-> <<>>, h |-> <<>>, x0 |-> <<>>, w |-> <<>>, fill |-> <<>>]
    /\ cum_graph_present = 0
    /\ sum_peak = <<>>
    /\ peaks_present = 0
    /\ scroll_count = 0
    /\ artists = <<>>
    /\ clicked_indice = 0 - 1
    /\ block = FALSE
    /\ cid = TRUE
    /\ cid2 = TRUE
    /\ pc = "wait"
    /\ manualfit_components_params = <<>>
    /\ manualfit = <<>>
    /\ lower_bounds = <<>>
    /\ upper_bounds = <<>>

Init ==
    /\ InitSession
    /\ call = NoCall
    /\ ret = NoRet

\* ------------------------------------------------------------------------
\* Events
\* ------------------------------------------------------------------------
\* where the user clicks: <<event.xdata, event.ydata>>, ydata in hundredths.
\* The ellipses of peaks placed at the first two points do not contain the
\* other's centre; the third point lies within both.  The ellipse drawn
\* for a peak is the record of its centre (its gid is never read).
ClickPoints == {<<69000, 100>>, <<70500, 200>>, <<69750, 0 - 100>>}
ClickX == {p[1] : p \in ClickPoints}
ClickY == {p[2] : p \in ClickPoints}

\* event.step of a scroll event
ScrollSteps == {0 - 2, 0 - 1, 1}

\* button_press_event: button 1 (left), 2 (middle) or 3 (right), step 0
PressEvents ==
    {e \in [name : {"button_press_event"}, inaxes : {TRUE},
            button : {"1", "2", "3"}, step : {0}, dblclick : BOOLEAN,
            xdata : ClickX, ydata : ClickY] :
        <<e.xdata, e.ydata>> \in ClickPoints}

\* scroll_event: button 'up' or 'down', step its signed amount
ScrollEvents ==
    {e \in [name : {"scroll_event"}, inaxes : {TRUE}, button : {"up", "down"},
            step : ScrollSteps, dblclick : {FALSE},
            xdata : ClickX, ydata : ClickY] :
        /\ (e.button = "up") = (e.step > 0)
        /\ <<e.xdata, e.ydata>> \in ClickPoints}

\* the same events outside the plot: inaxes, xdata and ydata are None
\* (xdata and ydata are written 0)
OutsideEvents ==
    {[e EXCEPT !.inaxes = FALSE, !.xdata = 0, !.ydata = 0] :
        e \in PressEvents \cup ScrollEvents}

\* artist.contains(event)[0] for the Ellipse((x0, h), x_size, y_size) of
\* lines 177-180: the point lies within the ellipse of axes x_size, y_size
contains(artist, event) ==
    LET dx == (2 * Abs(event.xdata - artist.x0) * Cent) \div x_size
        dy == (2 * Abs(event.ydata - artist.h) * Cent) \div y_size
    IN  dx * dx + dy * dy <= Cent * Cent

\* click_in_artist (line 159)
click_in_artist(event) == [i \in 1..Len(artists) |-> contains(artists[i], event)]

\* the index of the last True
IndexLastTrue(s) == CHOOSE i \in 1..Len(s) : s[i] /\ \A j \in (i + 1)..Len(s) : ~s[j]

\* click_in_artist.index(True), 1-based
IndexTrue(s) == CHOOSE i \in 1..Len(s) : s[i] /\ \A j \in 1..(i - 1) : ~s[j]

\* ------------------------------------------------------------------------
\* onclick (lines 152-271)
\* ------------------------------------------------------------------------

\* the remove branch taking the last ellipse off the plot, not the clicked
remove_branch_last_artist(event) ==
    LET i == IndexTrue(click_in_artist(event))
    IN  /\ clicked_indice' = i - 1
        /\ artists' = Pop(artists, Len(artists))
        /\ pic' = [pic EXCEPT !.line = Pop(pic.line, i),
                              !.x0 = Pop(pic.x0, i),
                              !.h = Pop(pic.h, i),
                              !.w = Pop(pic.w, i)]
        /\ peaks_present' = peaks_present - 1
        /\ UNCHANGED <<cum_graph_present, sum_peak, scroll_count>>

\* lines 161-170: the click is on one of the ellipses
remove_branch(event) ==
    LET i == IndexTrue(click_in_artist(event))
    IN  /\ clicked_indice' = i - 1
        /\ artists' = Pop(artists, i)
        /\ pic' = [pic EXCEPT !.line = Pop(pic.line, i),
                              !.x0 = Pop(pic.x0, i),
                              !.h = Pop(pic.h, i),
                              !.w = Pop(pic.w, i)]
        /\ peaks_present' = peaks_present - 1
        /\ UNCHANGED <<cum_graph_present, sum_peak, scroll_count>>

\* lines 173-189: the click is on none of the ellipses
add_branch(event) ==
    LET h == event.ydata
        x0 == event.xdata
        yy == pV(x, h, x0, x_size * initial_width,
                 initial_GaussToLoretnz_ratio, TRUE)
        one_elipsis == [x0 |-> x0, h |-> h]
    IN  /\ peaks_present' = peaks_present + 1
        /\ artists' = Append(artists, one_elipsis)
        /\ pic' = [pic EXCEPT !.line = Append(pic.line, yy),
                              !.h = Append(pic.h, h),
                              !.x0 = Append(pic.x0, x0),
                              !.w = Append(pic.w, x_size)]
        /\ UNCHANGED <<cum_graph_present, sum_peak, scroll_count,
                       clicked_indice>>

\* np.sum(np.asarray([pic['line'][i][0].get_ydata()
\*                    for i in range(peaks_present)]), axis=0):
\* the scalar 0.0 (of shape (), written Curve(<<>>)) when there is no peak
RECURSIVE SumLines(_, _)
SumLines(lines, n) ==
    IF n = 0 THEN Curve(<<>>)
    ELSE IF n = 1 THEN lines[1]
    ELSE AddCurves(SumLines(lines, n - 1), lines[n])

\* sumy.shape == x.shape
SameShape(c, xs) == c.kind = "ok" /\ Len(c.y) = Len(xs)

\* the right-click branch that draws the new sum next to the displayed one
right_branch_keep(event) ==
    LET sumy == SumLines(pic.line, peaks_present)
    IN  /\ IF SameShape(sumy, x)
           THEN /\ sum_peak' = Append(sum_peak, sumy)
                /\ cum_graph_present' = cum_graph_present + 1
           ELSE UNCHANGED <<sum_peak, cum_graph_present>>
        /\ UNCHANGED <<pic, peaks_present, scroll_count, artists,
                       clicked_indice>>

\* lines 194-223: right click
right_branch(event) ==
    LET sumy == SumLines(pic.line, peaks_present)
    IN  /\ IF cum_graph_present > 0
           THEN IF sum_peak[Len(sum_peak)] = sumy
                THEN UNCHANGED <<sum_peak, cum_graph_present>>
                ELSE LET popped == SubSeq(sum_peak, 1, Len(sum_peak) - 1)
                     IN  IF SameShape(sumy, x)
                         THEN /\ sum_peak' = Append(popped, sumy)
                              /\ cum_graph_present' = cum_graph_present - 1 + 1
                         ELSE /\ sum_peak' = popped
                              /\ cum_graph_present' = cum_graph_present - 1
           ELSE IF cum_graph_present = 0
           THEN IF SameShape(sumy, x)
                THEN /\ sum_peak' = Append(sum_peak, sumy)
                     /\ cum_graph_present' = cum_graph_present + 1
                ELSE UNCHANGED <<sum_peak, cum_graph_present>>
           ELSE FALSE   \* raise("sto to cinis?")
        /\ UNCHANGED <<pic, peaks_present, scroll_count, artists,
                       clicked_indice>>

\* line 240: scroll_count += x_size*np.sign(event.step)*scrolling_speed/10
scrolled(count, step) == count + (x_size * sign(step) * scrolling_speed) \div 10

\* a threshold below -x_size
clamp_below == 0 - ((x_size * 1001) \div 1000)

\* -x_size*0.999 (lines 242, 248)
clamp == 0 - ((x_size * 999) \div 1000)

\* the scroll branch with peak_identifier = 0, the first peak
scroll_branch_first(event) ==
    IF peaks_present # 0
    THEN LET sc == scrolled(scroll_count, event.step)
             inside == sc > clamp
             w2 == IF inside THEN x_size + sc ELSE x_size \div 1000
             yy == pV(x, pic.h[1], pic.x0[1], w2,
                      initial_GaussToLoretnz_ratio, TRUE)
         IN  /\ scroll_count' = IF inside THEN sc ELSE clamp
             /\ pic' = [pic EXCEPT !.w[1] = w2, !.line[1] = yy]
             /\ UNCHANGED <<cum_graph_present, sum_peak, peaks_present,
                            artists, clicked_indice>>
    ELSE UNCHANGED sessionVars

\* lines 226-264: scroll
scroll_branch(event) ==
    IF peaks_present # 0
    THEN LET sc == scrolled(scroll_count, event.step)
             inside == sc > clamp
             w2 == IF inside THEN x_size + sc ELSE x_size \div 1000
             last == Len(pic.w)
             center2 == pic.x0[Len(pic.x0)]
             h2 == pic.h[Len(pic.h)]
             yy == pV(x, h2, center2, w2, initial_GaussToLoretnz_ratio, TRUE)
         IN  /\ scroll_count' = IF inside THEN sc ELSE clamp
             /\ pic' = [pic EXCEPT !.w[last] = w2,
                                   !.line[Len(pic.line)] = yy]
             /\ UNCHANGED <<cum_graph_present, sum_peak, peaks_present,
                            artists, clicked_indice>>
    ELSE UNCHANGED sessionVars

\* the finish branch without mpl_disconnect(cid)
finish_branch_connected(event) ==
    /\ block' = TRUE
    /\ cid' = cid
    /\ cid2' = FALSE

\* lines 266-271: a double click of a button other than the left one
finish_branch(event) ==
    /\ block' = TRUE
    /\ cid' = FALSE
    /\ cid2' = FALSE

\* any(click_in_artist)
any_click_in_artist(event) == \E i \in 1..Len(artists) : contains(artists[i], event)

onclick(event) ==
    IF event.inaxes
    THEN /\ IF event.button = "1"
            THEN IF any_click_in_artist(event)
                 THEN remove_branch(event)
                 ELSE add_branch(event)
            ELSE IF event.button = "3" /\ event.step = 0
            THEN right_branch(event)
            ELSE IF event.step # 0
            THEN scroll_branch(event)
            ELSE UNCHANGED sessionVars
         /\ IF event.button # "1" /\ event.dblclick
            THEN finish_branch(event)
            ELSE UNCHANGED handlerVars
    ELSE UNCHANGED <<sessionVars, handlerVars>>

\* ------------------------------------------------------------------------
\* Delivery of the events to the connected handlers (lines 275-279)
\* ------------------------------------------------------------------------
\* the model's bounds on the session
Shallow(count) ==
    /\ count <= (MaxScrollUp * x_size * scrolling_speed) \div 10
    /\ count >= 0 - (MaxScrollDown * x_size * scrolling_speed) \div 10

WithinBounds(event) ==
    /\ (event.button = "1" /\ ~any_click_in_artist(event))
           => /\ peaks_present < MaxPeaks
              /\ peaks_present >= 1 => Shallow(scroll_count)
    /\ (event.step # 0 /\ peaks_present # 0)
           => /\ scrolled(scroll_count, event.step)
                    <= (MaxScrollUp * x_size * scrolling_speed) \div 10
              /\ peaks_present > 1
                    => Shallow(scrolled(scroll_count, event.step))

Deliver(event) ==
    /\ event.inaxes => WithinBounds(event)
    /\ onclick(event)
    /\ UNCHANGED <<scriptVars, fnVars>>

\* a left click on a marker
LeftClickOnMarker ==
    \E e \in PressEvents :
        /\ cid /\ e.inaxes /\ e.button = "1" /\ any_click_in_artist(e)
        /\ Deliver(e)

\* a left click elsewhere in the plot
LeftClickElsewhere ==
    \E e \in PressEvents :
        /\ cid /\ e.inaxes /\ e.button = "1" /\ ~any_click_in_artist(e)
        /\ Deliver(e)

\* a right click in the plot
RightClick ==
    \E e \in PressEvents :
        /\ cid /\ e.inaxes /\ e.button = "3"
        /\ Deliver(e)

\* a middle click in the plot
MiddleClick ==
    \E e \in PressEvents :
        /\ cid /\ e.inaxes /\ e.button = "2"
        /\ Deliver(e)

\* a scroll in the plot
Scroll ==
    \E e \in ScrollEvents :
        /\ cid2 /\ e.inaxes
        /\ Deliver(e)

\* a click or a scroll outside the plot
EventOutsideAxes ==
    \E e \in OutsideEvents :
        /\ IF e.name = "scroll_event" THEN cid2 ELSE cid
        /\ Deliver(e)

\* ------------------------------------------------------------------------
\* The module-level code after the session (lines 278-332)
\* ------------------------------------------------------------------------
Min(a, b) == IF a < b THEN a ELSE b

\* the tuples with centre and height exchanged
zip4_swapped(h, x0, w, r) ==
    [i \in 1..Min(Min(Len(h), Len(x0)), Min(Len(w), Len(r))) |->
        <<x0[i], h[i], w[i], r[i]>>]

\* list(map(list, zip(h, x0, w, ratios))): zip stops at the shortest
zip4(h, x0, w, r) ==
    [i \in 1..Min(Min(Len(h), Len(x0)), Min(Len(w), Len(r))) |->
        <<h[i], x0[i], w[i], r[i]>>]

\* list(chain(*lists))
RECURSIVE chain(_)
chain(lists) == IF Len(lists) = 0 THEN <<>> ELSE Head(lists) \o chain(Tail(lists))

\* [v] * n
Repeat(v, n) == [i \in 1..n |-> v]

\* params[start::4]
Stride4(params, start) ==
    [k \in 1..((Len(params) - start + 3) \div 4) |-> params[start + 1 + 4 * (k - 1)]]

\* arr[start::4] = vals
SetStride4(arr, start, vals) ==
    [j \in 1..Len(arr) |->
        IF (j - 1) % 4 = start THEN vals[((j - 1) \div 4) + 1] ELSE arr[j]]

\* the upper bounds with the centre bound on the wrong side of the centre
upper_bounds_minus(p, xsize) ==
    LET b0 == [j \in 1..Len(p) |-> PosInf]
        A == Stride4(p, 0)
        b1 == SetStride4(b0, 0, [k \in 1..Len(A) |-> Fin((A[k] * 132) \div 100)])
        S == Stride4(p, 1)
        b2 == SetStride4(b1, 1, [k \in 1..Len(S) |-> Fin(S[k] - 2 * xsize)])
        W == Stride4(p, 2)
        b3 == SetStride4(b2, 2, [k \in 1..Len(W) |-> Fin(W[k] * 10)])
        R == Stride4(p, 3)
    IN  SetStride4(b3, 3, [k \in 1..Len(R) |-> Fin(Cent)])

\* lines 305-329, upper_bounds
upper_bounds_of(p, xsize) ==
    LET b0 == [j \in 1..Len(p) |-> PosInf]
        A == Stride4(p, 0)
        b1 == SetStride4(b0, 0, [k \in 1..Len(A) |-> Fin((A[k] * 132) \div 100)])
        S == Stride4(p, 1)
        b2 == SetStride4(b1, 1, [k \in 1..Len(S) |-> Fin(S[k] + 2 * xsize)])
        W == Stride4(p, 2)
        b3 == SetStride4(b2, 2, [k \in 1..Len(W) |-> Fin(W[k] * 10)])
        R == Stride4(p, 3)
    IN  SetStride4(b3, 3, [k \in 1..Len(R) |-> Fin(Cent)])

\* the centre bound taken from each peak's own width
lower_bounds_per_peak(p, xsize) ==
    LET b0 == [j \in 1..Len(p) |-> NegInf]
        A == Stride4(p, 0)
        b1 == SetStride4(b0, 0, [k \in 1..Len(A) |-> Fin((A[k] * 75) \div 100)])
        S == Stride4(p, 1)
        W == Stride4(p, 2)
        b2 == SetStride4(b1, 1, [k \in 1..Len(S) |-> Fin(S[k] - 2 * W[k])])
        b3 == SetStride4(b2, 2, [k \in 1..Len(W) |-> Fin((W[k] * 5) \div 10)])
        R == Stride4(p, 3)
    IN  SetStride4(b3, 3, [k \in 1..Len(R) |-> Fin(0)])

\* lines 306-329, lower_bounds
lower_bounds_of(p, xsize) ==
    LET b0 == [j \in 1..Len(p) |-> NegInf]
        A == Stride4(p, 0)
        b1 == SetStride4(b0, 0, [k \in 1..Len(A) |-> Fin((A[k] * 75) \div 100)])
        S == Stride4(p, 1)
        b2 == SetStride4(b1, 1, [k \in 1..Len(S) |-> Fin(S[k] - 2 * xsize)])
        W == Stride4(p, 2)
        b3 == SetStride4(b2, 2, [k \in 1..Len(W) |-> Fin((W[k] * 5) \div 10)])
        R == Stride4(p, 3)
    IN  SetStride4(b3, 3, [k \in 1..Len(R) |-> Fin(0)])

\* lines 278-279: the loop ends once the handler has created 'block'
ExitWaitLoop ==
    /\ pc = "wait"
    /\ block
    /\ pc' = "params"
    /\ UNCHANGED <<sessionVars, handlerVars, manualfit_components_params,
                   manualfit, lower_bounds, upper_bounds, fnVars>>

\* lines 288-293
BuildParams ==
    /\ pc = "params"
    /\ manualfit_components_params' =
           chain(zip4(pic.h, pic.x0, pic.w,
                      Repeat(initial_GaussToLoretnz_ratio, peaks_present)))
    /\ pc' = "manualfit"
    /\ UNCHANGED <<sessionVars, handlerVars, manualfit, lower_bounds,
                   upper_bounds, fnVars>>

\* line 296: sum_peak[0] raises IndexError when no cumulative curve is drawn
ReadManualFit ==
    /\ pc = "manualfit"
    /\ IF Len(sum_peak) > 0
       THEN /\ manualfit' = sum_peak[1].y
            /\ pc' = "bounds"
       ELSE /\ manualfit' = manualfit
            /\ pc' = "IndexError"
    /\ UNCHANGED <<sessionVars, handlerVars, manualfit_components_params,
                   lower_bounds, upper_bounds, fnVars>>

\* lines 305-332
DeriveBounds ==
    /\ pc = "bounds"
    /\ upper_bounds' = upper_bounds_of(manualfit_components_params, x_size)
    /\ lower_bounds' = lower_bounds_of(manualfit_components_params, x_size)
    /\ pc' = "fit"
    /\ UNCHANGED <<sessionVars, handlerVars, manualfit_components_params,
                   manualfit, fnVars>>

Next ==
    \/ LeftClickOnMarker
    \/ LeftClickElsewhere
    \/ RightClick
    \/ MiddleClick
    \/ Scroll
    \/ EventOutsideAxes
    \/ ExitWaitLoop
    \/ BuildParams
    \/ ReadManualFit
    \/ DeriveBounds

Spec == Init /\ [][Next]_vars

\* ------------------------------------------------------------------------
\* Evaluations of the peak model and of the multi-peak model on their own
\* ------------------------------------------------------------------------
\* the evaluation points
FnXs == {<<>>, <<0, 2, 5>>, <<0 - 3, 2>>}

\* the peaks (h, x0, w, factor): heights and factors in hundredths
FnPeaks ==
    {<<h, 2, w, f>> : h \in {0 - 200, 300}, w \in {0 - 4, 0, 4}, f \in {0, 50, 100}}

\* the flat vectors of exactly n peaks
FullVectors(n) == {chain(ps) : ps \in [1..n -> FnPeaks]}

\* every flat vector of at most MaxFnPeaks peaks and every prefix of one
\* (a vector whose length is no multiple of 4 is a prefix cut inside a peak)
FnVectors ==
    UNION {{SubSeq(v, 1, k) : k \in 0..Len(v)} : v \in FullVectors(MaxFnPeaks)}

\* the second operands of a concatenation
FnSecond == {<<>>, <<300, 2, 4, 50>>, <<0 - 200, 0, 8, 100>>, <<300, 5, 0, 0>>}

InitFn ==
    /\ InitSession
    /\ call \in [x : FnXs, params1 : FnVectors, params2 : FnSecond,
                 npf : BOOLEAN]
    /\ ret = NoRet

\* pV(x, *params1[0:4]) when params1 holds a whole peak, and
\* fitting_function(x, *params) for params1, params2 and params1 + params2
Evaluate ==
    /\ ~ret.done
    /\ ret' = [done |-> TRUE,
               pv |-> IF Len(call.params1) >= 4
                      THEN pV(call.x, call.params1[1], call.params1[2],
                              call.params1[3], call.params1[4], call.npf)
                      ELSE NotCalled,
               r1 |-> fitting_function(call.x, call.params1, call.npf),
               r2 |-> fitting_function(call.x, call.params2, call.npf),
               r12 |-> fitting_function(call.x, call.params1 \o call.params2,
                                        call.npf)]
    /\ UNCHANGED <<sessionVars, handlerVars, scriptVars, call>>

NextFn == Evaluate

SpecFn == InitFn /\ [][NextFn]_vars

\* ------------------------------------------------------------------------
\* Properties of the session and of the bounds (checked under Spec)
\* ------------------------------------------------------------------------
\* the module-level code has built the parameter vector
Emitted == pc \in {"manualfit", "bounds", "fit", "IndexError"}

\* C1: for every parameter vector the session emits, the derived bounds
\* satisfy lower[j] <= upper[j] at every index j.  The code violates it: a
\* peak placed at a negative height h gets the height bounds
\* (0.75*h, 1.32*h), and 0.75*h > 1.32*h.
C1_BoundsOrdered ==
    pc = "fit" =>
        \A j \in 1..Len(lower_bounds) : Leq(lower_bounds[j], upper_bounds[j])

\* C2: every recorded width is strictly positive and at least x_size/1000,
\* whatever was added, removed and scrolled, and so is every width of the
\* emitted parameter vector.
C2_WidthsPositive ==
    /\ \A i \in 1..Len(pic.w) : pic.w[i] > 0 /\ pic.w[i] >= x_size \div 1000
    /\ Emitted =>
          \A j \in 1..Len(manualfit_components_params) :
              j % 4 = 3 => manualfit_components_params[j] > 0

\* C2 witness: a peak has been scrolled down onto the clamp and its width
\* is the smallest one, x_size/1000, and was emitted
C2_Witness ==
    /\ pc = "fit"
    /\ scroll_count = clamp
    /\ \E i \in 1..Len(pic.w) : pic.w[i] = x_size \div 1000

\* C3: the emitted vector has length 4 * peaks_present and its i-th
\* quadruple is (pic['h'][i], pic['x0'][i], pic['w'][i], 0.5)
C3_FlatVector ==
    Emitted =>
        /\ Len(manualfit_components_params) = 4 * peaks_present
        /\ Len(manualfit_components_params) % 4 = 0
        /\ \A i \in 1..peaks_present :
              /\ manualfit_components_params[4 * (i - 1) + 1] = pic.h[i]
              /\ manualfit_components_params[4 * (i - 1) + 2] = pic.x0[i]
              /\ manualfit_components_params[4 * (i - 1) + 3] = pic.w[i]
              /\ manualfit_components_params[4 * (i - 1) + 4] = 50

\* C3 witness: a vector of two peaks that differ in every field was emitted
C3_Witness ==
    /\ Emitted
    /\ peaks_present = 2
    /\ pic.h[1] # pic.h[2] /\ pic.x0[1] # pic.x0[2] /\ pic.w[1] # pic.w[2]

\* C4: each bound follows the rule of its field: height (0.75*p, 1.32*p),
\* centre (p - 2*x_size, p + 2*x_size) with the one x_size, width
\* (0.5*p, 10*p), ratio (0, 1); no bound is left infinite
C4_BoundsRule ==
    pc = "fit" =>
        /\ Len(lower_bounds) = Len(manualfit_components_params)
        /\ Len(upper_bounds) = Len(manualfit_components_params)
        /\ \A j \in 1..Len(manualfit_components_params) :
              LET p == manualfit_components_params[j]
                  lo == lower_bounds[j]
                  up == upper_bounds[j]
              IN  /\ lo.inf = 0 /\ up.inf = 0
                  /\ (j - 1) % 4 = 0 => 100 * lo.v = 75 * p /\ 100 * up.v = 132 * p
                  /\ (j - 1) % 4 = 1 => lo.v = p - 2 * x_size /\ up.v = p + 2 * x_size
                  /\ (j - 1) % 4 = 2 => 2 * lo.v = p /\ up.v = 10 * p
                  /\ (j - 1) % 4 = 3 => lo.v = 0 /\ up.v = 100

\* C4 witness: the bounds of a vector of two peaks, one of them scrolled to
\* a width other than x_size, were derived
C4_Witness ==
    /\ pc = "fit"
    /\ Len(lower_bounds) = 8
    /\ manualfit_components_params[3] # x_size

\* the handler ran on event e and nothing else happened
Handled(e) ==
    /\ IF e.name = "scroll_event" THEN cid2 ELSE cid
    /\ onclick(e)
    /\ UNCHANGED <<scriptVars, fnVars>>

\* t is s without its i-th element
Without(s, t, i) ==
    /\ Len(t) = Len(s) - 1
    /\ \A k \in 1..Len(t) : t[k] = IF k < i THEN s[k] ELSE s[k + 1]

\* peak i is erased from every registry and no other record changes
ErasedAt(i) ==
    /\ peaks_present' = peaks_present - 1
    /\ Without(artists, artists', i)
    /\ Without(pic.line, pic'.line, i)
    /\ Without(pic.h, pic'.h, i)
    /\ Without(pic.x0, pic'.x0, i)
    /\ Without(pic.w, pic'.w, i)

AllScrollEvents ==
    ScrollEvents \cup {e \in OutsideEvents : e.name = "scroll_event"}

\* C9: a scroll event leaves the heights and centres of all peaks, the
\* widths and curves of all peaks but the last, the markers and
\* peaks_present unchanged; with no peak present it changes nothing
C9_ScrollFrame ==
    [][\A e \in AllScrollEvents :
          Handled(e) =>
              /\ peaks_present' = peaks_present
              /\ pic'.h = pic.h
              /\ pic'.x0 = pic.x0
              /\ artists' = artists
              /\ Len(pic'.w) = Len(pic.w)
              /\ Len(pic'.line) = Len(pic.line)
              /\ \A i \in 1..(Len(pic.w) - 1) :
                    pic'.w[i] = pic.w[i] /\ pic'.line[i] = pic.line[i]
              /\ peaks_present = 0 =>
                    UNCHANGED <<sessionVars, handlerVars>>]_vars

\* C9 witness: of two peaks the last has been scrolled, the first has not
C9_Witness ==
    /\ peaks_present = 2
    /\ pic.w[2] # x_size
    /\ pic.w[1] = x_size
    /\ scroll_count # 0

\* C10: a double right-click in the plot sets block and disconnects both
\* handlers; once block is set no event reaches the handler and the peak
\* records, the markers and the cumulative curves no longer change; the
\* wait loop is left only then, and the parameter vector is built from the
\* records as they stand
C10_SessionEnds ==
    [][/\ \A e \in PressEvents :
             (e.button = "3" /\ e.dblclick /\ Handled(e)) =>
                 block' /\ ~cid' /\ ~cid2'
       /\ block => (~cid /\ ~cid2 /\ UNCHANGED <<sessionVars, handlerVars>>)
       /\ (pc = "wait" /\ pc' # "wait") => block
       /\ (block /\ pc = "wait") => pc' = "params"
       /\ (pc = "params" /\ pc' = "manualfit") =>
             /\ Len(manualfit_components_params') = 4 * Len(pic.h)
             /\ \A i \in 1..Len(pic.h) :
                   SubSeq(manualfit_components_params', 4 * i - 3, 4 * i)
                       = <<pic.h[i], pic.x0[i], pic.w[i], 50>>]_vars

\* C10 witness: the session has ended with peaks present and the vector
\* has been built
C10_Witness ==
    /\ block /\ ~cid /\ ~cid2
    /\ pc = "manualfit"
    /\ peaks_present = 2
    /\ Len(manualfit_components_params) = 8

\* ------------------------------------------------------------------------
\* Properties of pV and fitting_function (checked under SpecFn)
\* ------------------------------------------------------------------------
\* the call returned an array (of numbers or of NaN) and raised nothing
Returned(r) == r.kind \in {"ok", "nan"}

\* the widths of the whole peaks of a flat vector
Widths(params) == {params[j] : j \in {k \in 1..Len(params) : k % 4 = 3}}

\* C5: evaluating the multi-peak model on a vector whose length is no
\* multiple of 4 fails with an error.  The code violates it: the last,
\* short group is passed to pV, whose default arguments fill the gap.
C5_LengthRejected ==
    (ret.done /\ Len(call.params1) % 4 # 0) => ~Returned(ret.r1)

\* C6: pV and fitting_function called with a width <= 0 fail with an error.
\* The code violates it: a negative width gives the curve of |w|, and a
\* numpy zero width gives an array of NaN.
C6_WidthRejected ==
    (/\ ret.done
     /\ Len(call.params1) >= 4
     /\ Len(call.params1) % 4 = 0
     /\ \E w \in Widths(call.params1) : w <= 0)
        => ~Returned(ret.r1) /\ (call.params1[3] <= 0 => ~Returned(ret.pv))

\* the sum over the peaks of params of the k-th value of pV(x, peak)
RECURSIVE PeakSum(_, _, _, _)
PeakSum(xs, params, npf, k) ==
    IF Len(params) < 4 THEN 0
    ELSE pV(xs, params[1], params[2], params[3], params[4], npf).y[k]
         + PeakSum(xs, SubSeq(params, 5, Len(params)), npf, k)

\* a flat vector of whole peaks, each of a width > 0
ValidVector(params) ==
    /\ Len(params) % 4 = 0
    /\ \A w \in Widths(params) : w > 0

\* C7: for valid vectors params1 and params2, fitting_function(x, params1 ++
\* params2) is the elementwise sum of fitting_function(x, params1) and
\* fitting_function(x, params2), and each is the sum over its peaks of pV
C7_Additivity ==
    (ret.done /\ ValidVector(call.params1) /\ ValidVector(call.params2)) =>
        /\ ret.r1.kind = "ok" /\ ret.r2.kind = "ok" /\ ret.r12.kind = "ok"
        /\ Len(ret.r12.y) = Len(call.x)
        /\ \A k \in 1..Len(call.x) :
              /\ ret.r12.y[k] = ret.r1.y[k] + ret.r2.y[k]
              /\ ret.r1.y[k] = PeakSum(call.x, call.params1, call.npf, k)
              /\ ret.r12.y[k] =
                     PeakSum(call.x, call.params1 \o call.params2, call.npf, k)

\* C7 witness: two peaks concatenated with a third, every curve non-zero
C7_Witness ==
    /\ ret.done
    /\ ValidVector(call.params1) /\ ValidVector(call.params2)
    /\ Len(call.params1) = 8 /\ Len(call.params2) = 4
    /\ Len(call.x) > 0
    /\ ret.r12.kind = "ok"
    /\ \A k \in 1..Len(call.x) :
          ret.r1.y[k] # 0 /\ ret.r2.y[k] # 0 /\ ret.r12.y[k] # ret.r1.y[k]

\* C11: fitting_function(x, []) is a zero-filled array of the length of x,
\* for any x
C11_ZeroPeaks ==
    (ret.done /\ call.params2 = <<>>) =>
        /\ ret.r2.kind = "ok"
        /\ Len(ret.r2.y) = Len(call.x)
        /\ \A k \in 1..Len(call.x) : ret.r2.y[k] = 0

\* C11 witness: the model was evaluated with no parameter on three points
C11_Witness ==
    /\ ret.done
    /\ call.params2 = <<>>
    /\ Len(call.x) = 3
    /\ ret.r2.kind = "ok"

RECURSIVE LineSumAt(_, _)
LineSumAt(k, n) ==
    IF n = 0 THEN 0 ELSE LineSumAt(k, n - 1) + pic.line[n].y[k]

\* at most one cumulative curve, counted by cum_graph_present
OneCumulativeCurve ==
    /\ cum_graph_present \in {0, 1}
    /\ cum_graph_present = Len(sum_peak)

\* C13: at most one cumulative curve exists at any time: cum_graph_present
\* is 0 or 1 and equals len(sum_peak), so the final "else: raise" of the
\* right-click branch (cum_graph_present < 0) is never taken; right after a
\* right click with at least one peak present the single cumulative curve
\* is the elementwise sum of the curves of all peaks present
C13_OneCumulativeSum ==
    /\ OneCumulativeCurve
    /\ [][/\ OneCumulativeCurve'
          /\ \A e \in PressEvents :
                (e.button = "3" /\ peaks_present >= 1 /\ Handled(e)) =>
                    /\ Len(sum_peak') = 1
                    /\ sum_peak'[1].kind = "ok"
                    /\ Len(sum_peak'[1].y) = Len(x)
                    /\ \A k \in 1..Len(x) :
                          sum_peak'[1].y[k] = LineSumAt(k, peaks_present)]_vars

\* C13 witness: two peaks are present and the one cumulative curve is their
\* sum, which differs from the curve of each
C13_Witness ==
    /\ peaks_present = 2
    /\ cum_graph_present = 1
    /\ Len(sum_peak) = 1
    /\ \A k \in 1..Len(x) : sum_peak[1].y[k] = LineSumAt(k, 2)
    /\ sum_peak[1] # pic.line[1]
    /\ sum_peak[1] # pic.line[2]

\* the curve of a peak of the height and centre of peak i and of width w
CurveOfWidth(i, w) ==
    pV(x, pic.h[i], pic.x0[i], w, initial_GaussToLoretnz_ratio, TRUE)

\* C14: for every peak present, the width recorded in pic['w'] is the width
\* with which its curve was last drawn, also for a peak that was added and
\* never scrolled.  The code violates it: a new peak is drawn with the
\* width x_size*initial_width and recorded with the width x_size.
C14_WidthAsDrawn ==
    \A i \in 1..peaks_present : pic.line[i] = CurveOfWidth(i, pic.w[i])

\* the change of width of one scroll step: x_size*scrolling_speed/10
width_step == (x_size * scrolling_speed) \div 10

\* C15: scrolling is per peak: one scroll step changes the recorded width
\* of the last peak by exactly one step, in the direction of the scroll,
\* relative to the width that peak had before, except where the lower clamp
\* sets the width to x_size/1000; scrolling done on an earlier or removed
\* peak does not carry over to a peak added afterwards.  The code violates
\* it: the width is x_size + scroll_count and scroll_count is never reset.
C15_ScrollPerPeak ==
    [][\A e \in ScrollEvents :
          (peaks_present >= 1 /\ Handled(e)) =>
              LET last == Len(pic.w)
              IN  \/ pic'.w[last] = pic.w[last] + sign(e.step) * width_step
                  \/ pic'.w[last] = x_size \div 1000]_vars

\* C16: whenever the session ends (a double click of a button other than
\* the left one inside the plot), a cumulative curve exists, so reading
\* sum_peak[0] cannot fail, and that curve is the sum of the curves of the
\* peaks present at the end.  The code violates it: the session also ends
\* on a double middle click, which draws no sum, and on a double right
\* click with no peak present, which draws none either.
C16_EndsWithSum ==
    block =>
        /\ Len(sum_peak) >= 1
        /\ sum_peak[1].kind = "ok"
        /\ Len(sum_peak[1].y) = Len(x)
        /\ \A k \in 1..Len(x) : sum_peak[1].y[k] = LineSumAt(k, peaks_present)

\* a < b for bounds that may be infinite
Lt(a, b) == Leq(a, b) /\ a # b

\* C17: for every emitted vector whose heights are all positive (x_size
\* being positive), the initial guess lies strictly between its bounds,
\* lower[j] < p0[j] < upper[j] at every index j, the shape ratio 0.5 lying
\* inside [0, 1]
C17_GuessInsideBounds ==
    LET p == manualfit_components_params
    IN  (/\ pc = "fit"
         /\ x_size > 0
         /\ \A j \in 1..Len(p) : (j - 1) % 4 = 0 => p[j] > 0) =>
            \A j \in 1..Len(p) :
                /\ Lt(lower_bounds[j], Fin(p[j]))
                /\ Lt(Fin(p[j]), upper_bounds[j])
                /\ (j - 1) % 4 = 3 =>
                      /\ p[j] = initial_GaussToLoretnz_ratio
                      /\ 0 <= p[j] /\ p[j] <= Cent

\* C17 witness: the bounds of a vector of two peaks of positive heights and
\* of different widths were derived
C17_Witness ==
    /\ pc = "fit"
    /\ Len(manualfit_components_params) = 8
    /\ manualfit_components_params[1] > 0
    /\ manualfit_components_params[5] > 0
    /\ manualfit_components_params[3] # manualfit_components_params[7]
    /\ Len(lower_bounds) = 8 /\ Len(upper_bounds) = 8

\* C18: the registries of the peaks stay aligned: artists, pic['line'],
\* pic['h'], pic['x0'] and pic['w'] all have the length peaks_present >= 0,
\* and index i refers to the same peak in each: ellipse i marks the centre
\* and height recorded at i, and curve i is a curve of that centre and
\* height, of the recorded width or of the width x_size*initial_width of a
\* new peak
C18_RegistriesAligned ==
    /\ peaks_present >= 0
    /\ Len(artists) = peaks_present
    /\ Len(pic.line) = peaks_present
    /\ Len(pic.h) = peaks_present
    /\ Len(pic.x0) = peaks_present
    /\ Len(pic.w) = peaks_present
    /\ \A i \in 1..peaks_present :
          /\ artists[i].x0 = pic.x0[i]
          /\ artists[i].h = pic.h[i]
          /\ \/ pic.line[i] = CurveOfWidth(i, pic.w[i])
             \/ pic.line[i] = CurveOfWidth(i, x_size * initial_width)

\* C18 witness: of two peaks of different centres, heights and widths the
\* first was removed, and a peak was added after the one that remained
C18_Witness ==
    /\ clicked_indice = 0
    /\ peaks_present = 2
    /\ Len(artists) = 2
    /\ pic.x0[1] # pic.x0[2]
    /\ pic.h[1] # pic.h[2]
    /\ pic.w[1] # pic.w[2]
    /\ pic.line[1] # pic.line[2]

====
